---- MODULE Spec2Model ----
(***************************************************************************)
(* Process and session lifecycle of demo.py: the script launches the vmcp  *)
(* server, polls its health endpoint, opens an MCP client session through  *)
(* an AsyncExitStack, calls three composite tools and then either tears    *)
(* everything down or detaches.  SIGINT / SIGTERM handlers call cleanup()  *)
(* and sys.exit(0).                                                        *)
(*                                                                         *)
(* Python semantics the model relies on:                                   *)
(*  - sys.exit raises SystemExit, which `except Exception` does not catch; *)
(*  - asyncio.run raises RuntimeError when an event loop is already        *)
(*    running in the thread, and signal handlers run in the main thread;   *)
(*  - AsyncExitStack.aclose pops every callback, newest first, runs all of *)
(*    them even when one raises, and leaves the stack empty;               *)
(*  - Popen.send_signal polls first and sends nothing once the child has   *)
(*    been reaped.                                                         *)
(*                                                                         *)
(* Specifications: Spec is the script's run; SpecCall adds calls of        *)
(* execute_composite_tool between the script's steps; SpecStack is the     *)
(* exit stack alone; SpecDecode is display_workflow_result alone.          *)
(***************************************************************************)
EXTENDS Integers, Sequences, FiniteSets, TLC

\* ---------------------------------------------------------------- bounds
MaxSignals == 2
MaxRes == 3
MaxDrains == 2
MaxBlocks == 2

\* ------------------------------------------------------ program constants
MaxAttempts == 20
NumDemos == 3

Resources == {"transport", "session", "aux1", "aux2"}
ProbeResults == {"ok200", "bad_status", "request_error"}
ToolOutcomes == {"ok", "is_error", "exception", "input_error"}
Answers == {"y", "Y", "n", ""}

\* truncate_long_fields(parsed_result, max_length=150)
MaxLength == 150

\* text payloads, one character per element
LongText == [i \in 1..(MaxLength + 1) |-> "]"]

Texts ==
    {<<"1">>, <<"[", "]">>, <<"[", "1", "]">>, <<"[", "1", ",", "1", "]">>,
     <<"[", "1">>, <<>>, <<"1", "]">>, <<"[", ",", "]">>, LongText}

\* content blocks: types.TextContent, or any other block type
Blocks ==
    {[type |-> "text", text |-> t] : t \in Texts}
        \cup {[type |-> "image", text |-> <<>>]}

VARIABLES
    pc,             \* position of the script
    AUTO_CONTINUE,  \* demo.py:46
    vmcp_process,   \* "None" or "Popen" (demo.py:50)
    proc_alive,     \* the server's OS process is running
    returncode,     \* "None" or "set": Popen has reaped the child
    mcp_session,    \* TRUE when the global is not None (demo.py:51)
    exit_stack,     \* [created, callbacks] (demo.py:52)
    acquired,       \* resources entered on the stack, in order
    released,       \* release callbacks that ran, in order
    drains,         \* number of aclose() calls made
    drain_error,    \* resources whose release raised in the last aclose()
    attempts,       \* health probes made
    failures,       \* health probes that did not return 200
    ready,          \* the poll loop left through break
    demo_idx,       \* next demo step, 1..NumDemos+1
    tool_calls,     \* call_tool requests sent
    fatal,          \* which fatal condition occurred, "none" if none
    calls_at_fatal, \* tool_calls when the fatal condition occurred
    cleanup_caller, \* who awaits cleanup_async: "none", "normal", "except"
    stop_log,       \* stop requests made of the server by the script
    term_calls,     \* calls of vmcp_process.terminate()
    sig_handler,    \* "custom" or "default"
    sig_count,      \* signals delivered to the script
    sig_at,         \* pc at which the first signal arrived, "none" if none
    detached,       \* "no", "chosen" (keep-running answered), "done"
    exit_status,    \* -1 while running, else the status being exited with
    exit_via,       \* "none", "return", "sys_exit", "handler", "killed"
    checks,         \* results of the two gates run before the launch, in order
    initialized,    \* mcp_session.initialize() returned
    replies,        \* outcome of each call_tool request sent by a demo step
    last_call,      \* the last execute_composite_tool call: [active, sent, error]
    wait_log,       \* outcome of each vmcp_process.wait(timeout=3), in order
    content,        \* result["content"] handed to display_workflow_result
    shown,          \* what display_workflow_result rendered
    keep_running    \* the answer read at demo.py:672, "unasked" before it

vars == <<pc, AUTO_CONTINUE, vmcp_process, proc_alive, returncode, mcp_session,
          exit_stack, acquired, released, drains, drain_error, attempts,
          failures, ready, demo_idx, tool_calls, fatal, calls_at_fatal,
          cleanup_caller, stop_log, term_calls, sig_handler, sig_count, sig_at,
          detached, exit_status, exit_via, checks, initialized, replies,
          last_call, wait_log, content, shown, keep_running>>

procVars == <<vmcp_process, proc_alive, returncode, stop_log, term_calls,
              wait_log>>
displayVars == <<content, shown>>
envVars == <<AUTO_CONTINUE, keep_running, checks, initialized, last_call,
             displayVars>>
stackVars == <<exit_stack, acquired, released, drains, drain_error>>
pollVars == <<attempts, failures, ready>>
toolVars == <<demo_idx, tool_calls, replies>>
sigVars == <<sig_handler, sig_count, sig_at>>

\* ------------------------------------------------------------- helpers
RECURSIVE Reverse(_)
Reverse(s) ==
    IF s = <<>> THEN <<>> ELSE Append(Reverse(Tail(s)), Head(s))

SeqSet(s) == {s[i] : i \in 1..Len(s)}

Count(s, x) == Cardinality({i \in 1..Len(s) : s[i] = x})

\* the event loop of asyncio.run(async_main()) is running
LoopPcs == {"check_prerequisites", "validate_config", "start_server", "poll",
            "connect_transport", "connect_session", "initialize",
            "connected_wait", "demo", "ask", "cleanup_drain", "cleanup_stop",
            "cleanup_wait"}

LoopRunning == pc \in LoopPcs

\* ------------------------------------------------- AsyncExitStack model
NoStack == [created |-> FALSE, callbacks |-> <<>>]

NewStack == [created |-> TRUE, callbacks |-> <<>>]

EnterContext(stack, r) == [stack EXCEPT !.callbacks = Append(@, r)]

ReleaseOrder_Fifo(stack) == stack.callbacks

\* aclose() runs the callbacks newest first
ReleaseOrder(stack) == Reverse(stack.callbacks)

AClose_KeepsCallbacks(stack) == stack

\* aclose() pops every callback it runs
AClose(stack) == [stack EXCEPT !.callbacks = <<>>]

DrainStack_StopsAtFailure(failing) ==
    IF exit_stack.created
    THEN LET order == ReleaseOrder(exit_stack)
             bad == {i \in 1..Len(order) : order[i] \in failing}
             n == IF bad = {} THEN Len(order)
                  ELSE CHOOSE i \in bad : \A j \in bad : i <= j
         IN /\ released' = released \o SubSeq(order, 1, n)
            /\ exit_stack' =
                  [exit_stack EXCEPT !.callbacks = SubSeq(@, 1, Len(@) - n)]
            /\ drains' = drains + 1
            /\ drain_error' = SeqSet(exit_stack.callbacks) \cap failing
            /\ UNCHANGED acquired
    ELSE UNCHANGED stackVars

\* `if exit_stack: try: await exit_stack.aclose() except Exception: pass`
\* failing: the resources whose release callback raises; aclose() still runs
\* every callback and raises afterwards, and the except clause swallows it
DrainStack(failing) ==
    IF exit_stack.created
    THEN /\ released' = released \o ReleaseOrder(exit_stack)
         /\ exit_stack' = AClose(exit_stack)
         /\ drains' = drains + 1
         /\ drain_error' = SeqSet(exit_stack.callbacks) \cap failing
         /\ UNCHANGED acquired
    ELSE UNCHANGED stackVars

\* ------------------------------------------------------ Popen model
ProcState ==
    [alive |-> proc_alive, rc |-> returncode, log |-> stop_log,
     calls |-> term_calls, wait |-> wait_log]

\* Popen.terminate(): poll, then SIGTERM unless the child is already reaped
Terminate(p) ==
    IF p.rc = "set" \/ ~p.alive
    THEN [p EXCEPT !.calls = @ + 1, !.rc = "set"]
    ELSE [p EXCEPT !.calls = @ + 1, !.log = Append(@, "terminate")]

WaitOrKill_AlwaysKills(p, in_time) ==
    [p EXCEPT !.log = Append(@, "kill"), !.alive = FALSE,
              !.rc = IF in_time THEN "set" ELSE @,
              !.wait = Append(@, IF p.rc = "set" \/ in_time THEN "exited"
                                 ELSE "timeout")]

\* wait(timeout=3), and kill() on TimeoutExpired
WaitOrKill(p, in_time) ==
    IF p.rc = "set" \/ in_time
    THEN [p EXCEPT !.rc = "set", !.alive = FALSE,
                   !.wait = Append(@, "exited")]
    ELSE [p EXCEPT !.log = Append(@, "kill"), !.alive = FALSE,
                   !.wait = Append(@, "timeout")]

SetProc(p) ==
    /\ proc_alive' = p.alive
    /\ returncode' = p.rc
    /\ stop_log' = p.log
    /\ term_calls' = p.calls
    /\ wait_log' = p.wait
    /\ UNCHANGED vmcp_process

\* sys.exit(status) inside the event loop: SystemExit passes every
\* `except Exception` and unwinds asyncio.run
SysExit(status) ==
    /\ pc' = "post_loop"
    /\ exit_status' = status
    /\ exit_via' = "sys_exit"

\* n: the number of call_tool requests sent when the condition occurs
RaiseFatal(kind, n) ==
    /\ fatal' = kind
    /\ calls_at_fatal' = n

\* cleanup_async returns to its caller in async_main: the normal path falls
\* off the end of async_main, the handler goes on to sys.exit(1)
CleanupReturns ==
    /\ pc' = "post_loop"
    /\ exit_status' = IF cleanup_caller = "except" THEN 1 ELSE 0
    /\ exit_via' = IF cleanup_caller = "except" THEN "sys_exit" ELSE "return"
    /\ UNCHANGED cleanup_caller

NoCall == [active |-> FALSE, sent |-> FALSE, error |-> "no_call"]

NullValue == [type |-> "null", items |-> <<>>]

NotShown ==
    [kind |-> "not_called", block |-> 0, value |-> NullValue,
     raw_output |-> <<>>, displayed |-> <<>>]

\* ------------------------------------------- display_workflow_result
\* json.loads on the payloads above: a value is the digit 1 or an array of
\* values; anything else, and any trailing data, is a JSONDecodeError
RECURSIVE ParseValue(_, _), ParseElems(_, _, _)
ParseValue(t, i) ==
    IF i > Len(t) THEN [ok |-> FALSE, val |-> NullValue, next |-> i]
    ELSE IF t[i] = "1"
    THEN [ok |-> TRUE, val |-> [type |-> "num", items |-> <<>>], next |-> i + 1]
    ELSE IF t[i] = "["
    THEN IF i + 1 <= Len(t) /\ t[i + 1] = "]"
         THEN [ok |-> TRUE, val |-> [type |-> "arr", items |-> <<>>],
               next |-> i + 2]
         ELSE ParseElems(t, i + 1, <<>>)
    ELSE [ok |-> FALSE, val |-> NullValue, next |-> i]

ParseElems(t, i, acc) ==
    LET v == ParseValue(t, i) IN
    IF ~v.ok \/ v.next > Len(t)
    THEN [ok |-> FALSE, val |-> NullValue, next |-> i]
    ELSE IF t[v.next] = ","
    THEN ParseElems(t, v.next + 1, Append(acc, v.val))
    ELSE IF t[v.next] = "]"
    THEN [ok |-> TRUE, val |-> [type |-> "arr", items |-> Append(acc, v.val)],
          next |-> v.next + 1]
    ELSE [ok |-> FALSE, val |-> NullValue, next |-> i]

json_loads(t) ==
    LET r == ParseValue(t, 1) IN
    IF r.ok /\ r.next = Len(t) + 1
    THEN [ok |-> TRUE, val |-> r.val]
    ELSE [ok |-> FALSE, val |-> NullValue]

\* truncate_long_fields on a string
Truncate(text) ==
    IF Len(text) > MaxLength
    THEN SubSeq(text, 1, MaxLength) \o <<"... (truncated)">>
    ELSE text

DecodeText_NoFallback(k, text) ==
    LET r == json_loads(text) IN
    IF r.ok
    THEN [kind |-> "json", block |-> k, value |-> r.val, raw_output |-> <<>>,
          displayed |-> <<>>]
    ELSE [kind |-> "raised", block |-> k, value |-> NullValue,
          raw_output |-> <<>>, displayed |-> <<>>]

\* `try: json.loads(content.text) except JSONDecodeError: {"raw_output": ...}`
DecodeText(k, text) ==
    LET r == json_loads(text) IN
    IF r.ok
    THEN [kind |-> "json", block |-> k, value |-> r.val, raw_output |-> <<>>,
          displayed |-> <<>>]
    ELSE [kind |-> "raw", block |-> k, value |-> NullValue,
          raw_output |-> text, displayed |-> Truncate(text)]

\* the for loop: the first TextContent block is decoded, then `break`
RECURSIVE FirstTextFrom(_, _)
FirstTextFrom(c, k) ==
    IF k > Len(c)
    THEN [NotShown EXCEPT !.kind = "no_text"]
    ELSE IF c[k].type = "text" THEN DecodeText(k, c[k].text)
    ELSE FirstTextFrom(c, k + 1)

display_workflow_result(c) ==
    IF c = <<>> THEN [NotShown EXCEPT !.kind = "no_content"]
    ELSE FirstTextFrom(c, 1)

\* ---------------------------------------------------------------- Init
Init ==
    /\ pc = "pre_loop"
    /\ AUTO_CONTINUE \in BOOLEAN
    /\ vmcp_process = "None"
    /\ proc_alive = FALSE
    /\ returncode = "None"
    /\ mcp_session = FALSE
    /\ exit_stack = NoStack
    /\ acquired = <<>>
    /\ released = <<>>
    /\ drains = 0
    /\ drain_error = {}
    /\ attempts = 0
    /\ failures = 0
    /\ ready = FALSE
    /\ demo_idx = 1
    /\ tool_calls = 0
    /\ fatal = "none"
    /\ calls_at_fatal = 0
    /\ cleanup_caller = "none"
    /\ stop_log = <<>>
    /\ term_calls = 0
    /\ sig_handler = "custom"
    /\ sig_count = 0
    /\ sig_at = "none"
    /\ detached = "no"
    /\ exit_status = -1
    /\ exit_via = "none"
    /\ checks = <<>>
    /\ initialized = FALSE
    /\ replies = <<>>
    /\ last_call = NoCall
    /\ wait_log = <<>>
    /\ content = <<>>
    /\ shown = NotShown
    /\ keep_running = "unasked"

\* ------------------------------------------------------------- actions
\* main(): handlers are installed, asyncio.run(async_main()) starts
StartLoop ==
    /\ pc = "pre_loop"
    /\ pc' = "check_prerequisites"
    /\ UNCHANGED <<envVars, procVars, mcp_session, stackVars, pollVars,
                   toolVars, fatal, calls_at_fatal, cleanup_caller, sigVars,
                   detached, exit_status, exit_via>>

CheckPrerequisites(ok) ==
    /\ pc = "check_prerequisites"
    /\ checks' = Append(checks, IF ok THEN "prereq_ok" ELSE "prereq_failed")
    /\ IF ok
       THEN /\ pc' = "validate_config"
            /\ UNCHANGED <<fatal, calls_at_fatal, exit_status, exit_via>>
       ELSE /\ RaiseFatal("prerequisites", tool_calls)
            /\ SysExit(1)
    /\ UNCHANGED <<AUTO_CONTINUE, keep_running,
                   initialized, last_call, displayVars,
                   procVars, mcp_session, stackVars, pollVars, toolVars,
                   cleanup_caller, sigVars, detached>>

step_validate_config_IgnoresFailure(ok) ==
    /\ pc = "validate_config"
    /\ checks' = Append(checks, IF ok THEN "config_ok" ELSE "config_failed")
    /\ pc' = "start_server"
    /\ UNCHANGED <<fatal, calls_at_fatal, exit_status, exit_via>>
    /\ UNCHANGED <<AUTO_CONTINUE, keep_running,
                   initialized, last_call, displayVars,
                   procVars, mcp_session, stackVars, pollVars, toolVars,
                   cleanup_caller, sigVars, detached>>

\* subprocess.run(..., check=True); CalledProcessError leads to sys.exit(1)
step_validate_config(ok) ==
    /\ pc = "validate_config"
    /\ checks' = Append(checks, IF ok THEN "config_ok" ELSE "config_failed")
    /\ IF ok
       THEN /\ pc' = "start_server"
            /\ UNCHANGED <<fatal, calls_at_fatal, exit_status, exit_via>>
       ELSE /\ RaiseFatal("validation", tool_calls)
            /\ SysExit(1)
    /\ UNCHANGED <<AUTO_CONTINUE, keep_running,
                   initialized, last_call, displayVars,
                   procVars, mcp_session, stackVars, pollVars, toolVars,
                   cleanup_caller, sigVars, detached>>

LaunchServer_ContinuesAfterFailure(ok) ==
    /\ pc = "start_server"
    /\ IF ok
       THEN /\ vmcp_process' = "Popen"
            /\ proc_alive' = TRUE
            /\ UNCHANGED <<fatal, calls_at_fatal>>
       ELSE /\ RaiseFatal("launch", tool_calls)
            /\ UNCHANGED <<vmcp_process, proc_alive>>
    /\ pc' = "poll"
    /\ UNCHANGED <<envVars, returncode, stop_log, term_calls, wait_log,
                   mcp_session, cleanup_caller,
                   stackVars, pollVars, toolVars, sigVars, detached,
                   exit_status, exit_via>>

\* subprocess.Popen(...): an OSError is an Exception and reaches the handler
LaunchServer(ok) ==
    /\ pc = "start_server"
    /\ IF ok
       THEN /\ vmcp_process' = "Popen"
            /\ proc_alive' = TRUE
            /\ pc' = "poll"
            /\ UNCHANGED <<fatal, calls_at_fatal, cleanup_caller>>
       ELSE /\ RaiseFatal("launch", tool_calls)
            /\ pc' = "cleanup_drain"
            /\ cleanup_caller' = "except"
            /\ UNCHANGED <<vmcp_process, proc_alive>>
    /\ UNCHANGED <<envVars, returncode, stop_log, term_calls, wait_log,
                   mcp_session,
                   stackVars, pollVars, toolVars, sigVars, detached,
                   exit_status, exit_via>>

PollContinues_OneMore == attempts <= MaxAttempts

\* `for i in range(20)`
PollContinues == attempts < MaxAttempts

ProbeSucceeds(res) == res = "ok200"

\* one iteration of the poll loop: httpx.get, then break or sleep
Probe(res) ==
    /\ pc = "poll"
    /\ PollContinues
    /\ attempts' = attempts + 1
    /\ IF ProbeSucceeds(res)
       THEN /\ ready' = TRUE
            /\ pc' = "connect_transport"
            /\ UNCHANGED failures
       ELSE /\ failures' = failures + 1
            /\ UNCHANGED <<ready, pc>>
    /\ UNCHANGED <<envVars, procVars, mcp_session, stackVars, toolVars,
                   fatal, calls_at_fatal, cleanup_caller, sigVars, detached,
                   exit_status, exit_via>>

\* the loop's else branch: sys.exit(1)
ReadinessTimeout ==
    /\ pc = "poll"
    /\ ~PollContinues
    /\ RaiseFatal("readiness_timeout", tool_calls)
    /\ SysExit(1)
    /\ UNCHANGED <<envVars, procVars, mcp_session, stackVars, pollVars,
                   toolVars, cleanup_caller, sigVars, detached>>

\* `except Exception as e: ... sys.exit(1)` around the three connect steps
ConnectFails ==
    /\ RaiseFatal("connect", tool_calls)
    /\ SysExit(1)

OpenTransport(ok) ==
    /\ pc = "connect_transport"
    /\ IF ok
       THEN /\ exit_stack' = EnterContext(NewStack, "transport")
            /\ acquired' = Append(acquired, "transport")
            /\ pc' = "connect_session"
            /\ UNCHANGED <<fatal, calls_at_fatal, exit_status, exit_via>>
       ELSE /\ exit_stack' = NewStack
            /\ UNCHANGED acquired
            /\ ConnectFails
    /\ UNCHANGED <<envVars, procVars, mcp_session, released, drains,
                   drain_error, pollVars, toolVars, cleanup_caller, sigVars,
                   detached>>

OpenSession(ok) ==
    /\ pc = "connect_session"
    /\ IF ok
       THEN /\ exit_stack' = EnterContext(exit_stack, "session")
            /\ acquired' = Append(acquired, "session")
            /\ mcp_session' = TRUE
            /\ pc' = "initialize"
            /\ UNCHANGED <<fatal, calls_at_fatal, exit_status, exit_via>>
       ELSE /\ UNCHANGED <<exit_stack, acquired, mcp_session>>
            /\ ConnectFails
    /\ UNCHANGED <<envVars, procVars, released, drains, drain_error,
                   pollVars, toolVars, cleanup_caller, sigVars, detached>>

InitializeSession_IgnoresFailure(ok) ==
    /\ pc = "initialize"
    /\ initialized' = ok
    /\ pc' = "connected_wait"
    /\ UNCHANGED <<fatal, calls_at_fatal, exit_status, exit_via>>
    /\ UNCHANGED <<AUTO_CONTINUE, keep_running,
                   checks, last_call, displayVars, procVars,
                   mcp_session, stackVars, pollVars, toolVars, cleanup_caller,
                   sigVars, detached>>

\* `await mcp_session.initialize()` inside the connect try block
InitializeSession(ok) ==
    /\ pc = "initialize"
    /\ IF ok
       THEN /\ initialized' = TRUE
            /\ pc' = "connected_wait"
            /\ UNCHANGED <<fatal, calls_at_fatal, exit_status, exit_via>>
       ELSE /\ UNCHANGED initialized
            /\ ConnectFails
    /\ UNCHANGED <<AUTO_CONTINUE, keep_running,
                   checks, last_call, displayVars, procVars,
                   mcp_session, stackVars, pollVars, toolVars, cleanup_caller,
                   sigVars, detached>>

\* the wait_for_user() that ends step_start_server; input() may raise
ConnectedWait(ok) ==
    /\ pc = "connected_wait"
    /\ IF ok
       THEN /\ pc' = "demo"
            /\ UNCHANGED <<fatal, calls_at_fatal, cleanup_caller>>
       ELSE /\ RaiseFatal("input", tool_calls)
            /\ pc' = "cleanup_drain"
            /\ cleanup_caller' = "except"
    /\ UNCHANGED <<envVars, procVars, mcp_session, stackVars, pollVars,
                   toolVars, sigVars, detached, exit_status, exit_via>>

AbortsRun_OnErrorFlag(outcome) == outcome \in {"exception", "is_error"}

\* call_tool raised; a reply with isError set is returned like any other
AbortsRun(outcome) == outcome = "exception"

ToolCallRaises_ExitsDirectly ==
    /\ RaiseFatal("tool_call", tool_calls + 1)
    /\ SysExit(1)
    /\ UNCHANGED cleanup_caller

\* execute_composite_tool re-raises; the Exception passes through the
\* step and lands in async_main's handler, which awaits cleanup_async
ToolCallRaises ==
    /\ RaiseFatal("tool_call", tool_calls + 1)
    /\ pc' = "cleanup_drain"
    /\ cleanup_caller' = "except"
    /\ UNCHANGED <<exit_status, exit_via>>

\* a session that was opened and initialized and is not yet closed
SessionActive == initialized /\ "session" \in SeqSet(exit_stack.callbacks)

\* `if not mcp_session: raise RuntimeError(...)`
NotConnected == ~mcp_session

\* what one execute_composite_tool call does: raise at the guard, or hand
\* the request to mcp_session.call_tool
CallRecord(outcome) ==
    IF NotConnected
    THEN [active |-> SessionActive, sent |-> FALSE, error |-> "not_connected"]
    ELSE [active |-> SessionActive, sent |-> TRUE,
          error |-> IF outcome = "exception" THEN "exception" ELSE "none"]

\* one step_demo_*: wait_for_user, then execute_composite_tool
DemoStep(outcome) ==
    /\ pc = "demo"
    /\ demo_idx <= NumDemos
    /\ IF outcome = "input_error"
       THEN /\ UNCHANGED <<toolVars, exit_status, exit_via, last_call>>
            /\ RaiseFatal("input", tool_calls)
            /\ pc' = "cleanup_drain"
            /\ cleanup_caller' = "except"
       ELSE IF NotConnected
       THEN /\ UNCHANGED <<toolVars, exit_status, exit_via>>
            /\ last_call' = CallRecord(outcome)
            /\ RaiseFatal("not_connected", tool_calls)
            /\ pc' = "cleanup_drain"
            /\ cleanup_caller' = "except"
       ELSE /\ tool_calls' = tool_calls + 1
            /\ replies' = Append(replies, outcome)
            /\ last_call' = CallRecord(outcome)
            /\ IF AbortsRun(outcome)
               THEN /\ ToolCallRaises
                    /\ UNCHANGED demo_idx
               ELSE /\ demo_idx' = demo_idx + 1
                    /\ pc' = IF demo_idx = NumDemos THEN "ask" ELSE "demo"
                    /\ UNCHANGED <<fatal, calls_at_fatal, cleanup_caller,
                                   exit_status, exit_via>>
    /\ UNCHANGED <<AUTO_CONTINUE, keep_running,
                   checks, initialized, displayVars, procVars,
                   mcp_session, stackVars, pollVars, sigVars, detached>>

Lower(a) == IF a = "Y" THEN "y" ELSE a

KeepsServer_IgnoresAutoContinue(answer) == Lower(answer) = "y"

\* `if not AUTO_CONTINUE: ... if keep_running.lower() != 'y': cleanup`
KeepsServer(answer) == ~AUTO_CONTINUE /\ Lower(answer) = "y"

\* end of the script: the keep-running question
Ask(answer) ==
    /\ pc = "ask"
    /\ IF KeepsServer(answer)
       THEN /\ pc' = "detach"
            /\ detached' = "chosen"
            /\ UNCHANGED cleanup_caller
       ELSE /\ pc' = "cleanup_drain"
            /\ cleanup_caller' = "normal"
            /\ UNCHANGED detached
    /\ keep_running' = IF AUTO_CONTINUE THEN keep_running ELSE answer
    /\ UNCHANGED <<AUTO_CONTINUE, checks, initialized, last_call, displayVars,
                   procVars, mcp_session, stackVars, pollVars,
                   toolVars, fatal, calls_at_fatal, sigVars, exit_status,
                   exit_via>>

Detach_StopsServer(failing) ==
    /\ pc = "detach"
    /\ DrainStack(failing)
    /\ SetProc(WaitOrKill(Terminate(ProcState), TRUE))
    /\ sig_handler' = "default"
    /\ detached' = "done"
    /\ pc' = "post_loop"
    /\ exit_status' = 0
    /\ exit_via' = "return"
    /\ UNCHANGED <<envVars, mcp_session, pollVars, toolVars, fatal,
                   calls_at_fatal, cleanup_caller, sig_count, sig_at>>

\* the keep-running branch: aclose, then SIG_DFL for both signals
Detach(failing) ==
    /\ pc = "detach"
    /\ DrainStack(failing)
    /\ sig_handler' = "default"
    /\ detached' = "done"
    /\ pc' = "post_loop"
    /\ exit_status' = 0
    /\ exit_via' = "return"
    /\ UNCHANGED <<envVars, procVars, mcp_session, pollVars, toolVars,
                   fatal, calls_at_fatal, cleanup_caller, sig_count, sig_at>>

CleanupDrain_SkipsDrain(failing) ==
    /\ pc = "cleanup_drain"
    /\ UNCHANGED stackVars
    /\ IF vmcp_process = "Popen"
       THEN /\ pc' = "cleanup_stop"
            /\ UNCHANGED <<cleanup_caller, exit_status, exit_via>>
       ELSE CleanupReturns
    /\ UNCHANGED <<envVars, procVars, mcp_session, pollVars, toolVars,
                   fatal, calls_at_fatal, sigVars, detached>>

\* cleanup_async, first half: close the MCP session
CleanupDrain(failing) ==
    /\ pc = "cleanup_drain"
    /\ DrainStack(failing)
    /\ IF vmcp_process = "Popen"
       THEN /\ pc' = "cleanup_stop"
            /\ UNCHANGED <<cleanup_caller, exit_status, exit_via>>
       ELSE CleanupReturns
    /\ UNCHANGED <<envVars, procVars, mcp_session, pollVars, toolVars,
                   fatal, calls_at_fatal, sigVars, detached>>

\* cleanup_async, second half: vmcp_process.terminate()
CleanupTerminate ==
    /\ pc = "cleanup_stop"
    /\ SetProc(Terminate(ProcState))
    /\ pc' = "cleanup_wait"
    /\ UNCHANGED <<envVars, mcp_session, stackVars, pollVars, toolVars,
                   fatal, calls_at_fatal, cleanup_caller, sigVars, detached,
                   exit_status, exit_via>>

\* cleanup_async, second half: wait(timeout=3) and the kill on timeout
CleanupWait(in_time) ==
    /\ pc = "cleanup_wait"
    /\ SetProc(WaitOrKill(ProcState, in_time))
    /\ CleanupReturns
    /\ UNCHANGED <<envVars, mcp_session, stackVars, pollVars, toolVars,
                   fatal, calls_at_fatal, sigVars, detached>>

SignalArrives ==
    /\ sig_count < MaxSignals
    /\ sig_count' = sig_count + 1
    /\ sig_at' = IF sig_count = 0 THEN pc ELSE sig_at
    /\ UNCHANGED sig_handler

SignalInLoop_HandlerReturns ==
    /\ sig_handler = "custom"
    /\ LoopRunning \/ pc = "detach"
    /\ SignalArrives
    /\ UNCHANGED <<pc, exit_status, exit_via>>
    /\ UNCHANGED <<envVars, procVars, mcp_session, stackVars, pollVars,
                   toolVars, fatal, calls_at_fatal, cleanup_caller, detached>>

\* the lambda handler while the event loop runs: cleanup() calls asyncio.run,
\* which raises RuntimeError, swallowed by cleanup(); then sys.exit(0)
SignalInLoop ==
    /\ sig_handler = "custom"
    /\ LoopRunning \/ pc = "detach"
    /\ SignalArrives
    /\ pc' = "post_loop"
    /\ exit_status' = 0
    /\ exit_via' = "handler"
    /\ UNCHANGED <<envVars, procVars, mcp_session, stackVars, pollVars,
                   toolVars, fatal, calls_at_fatal, cleanup_caller, detached>>

\* the lambda handler with no event loop running: cleanup() runs
\* cleanup_async to its end; then sys.exit(0)
SignalOutsideLoop(failing, in_time) ==
    /\ sig_handler = "custom"
    /\ pc \in {"pre_loop", "post_loop"}
    /\ SignalArrives
    /\ DrainStack(failing)
    /\ IF vmcp_process = "Popen"
       THEN SetProc(WaitOrKill(Terminate(ProcState), in_time))
       ELSE UNCHANGED procVars
    /\ pc' = "post_loop"
    /\ exit_status' = 0
    /\ exit_via' = "handler"
    /\ UNCHANGED <<envVars, mcp_session, pollVars, toolVars, fatal,
                   calls_at_fatal, cleanup_caller, detached>>

SignalDefault_RunsCleanup ==
    /\ sig_handler = "default"
    /\ pc # "exited"
    /\ SignalArrives
    /\ SetProc(WaitOrKill(Terminate(ProcState), TRUE))
    /\ pc' = "exited"
    /\ exit_status' = 0
    /\ exit_via' = "handler"
    /\ UNCHANGED <<envVars, mcp_session, stackVars, pollVars,
                   toolVars, fatal, calls_at_fatal, cleanup_caller, detached>>

\* SIG_DFL after detach: the signal kills the script
SignalDefault ==
    /\ sig_handler = "default"
    /\ pc # "exited"
    /\ SignalArrives
    /\ pc' = "exited"
    /\ exit_status' = 128
    /\ exit_via' = "killed"
    /\ UNCHANGED <<envVars, procVars, mcp_session, stackVars, pollVars,
                   toolVars, fatal, calls_at_fatal, cleanup_caller, detached>>

\* the interpreter exits with the pending status
Exit ==
    /\ pc = "post_loop"
    /\ pc' = "exited"
    /\ UNCHANGED <<envVars, procVars, mcp_session, stackVars, pollVars,
                   toolVars, fatal, calls_at_fatal, cleanup_caller, sigVars,
                   detached, exit_status, exit_via>>

Next ==
    \/ StartLoop
    \/ \E ok \in BOOLEAN : CheckPrerequisites(ok)
    \/ \E ok \in BOOLEAN : step_validate_config(ok)
    \/ \E ok \in BOOLEAN : LaunchServer(ok)
    \/ \E res \in ProbeResults : Probe(res)
    \/ ReadinessTimeout
    \/ \E ok \in BOOLEAN : OpenTransport(ok)
    \/ \E ok \in BOOLEAN : OpenSession(ok)
    \/ \E ok \in BOOLEAN : InitializeSession(ok)
    \/ \E ok \in BOOLEAN : ConnectedWait(ok)
    \/ \E outcome \in ToolOutcomes : DemoStep(outcome)
    \/ \E answer \in Answers : Ask(answer)
    \/ \E failing \in SUBSET SeqSet(exit_stack.callbacks) : Detach(failing)
    \/ \E failing \in SUBSET SeqSet(exit_stack.callbacks) : CleanupDrain(failing)
    \/ CleanupTerminate
    \/ \E in_time \in BOOLEAN : CleanupWait(in_time)
    \/ SignalInLoop
    \/ \E failing \in SUBSET SeqSet(exit_stack.callbacks), in_time \in BOOLEAN :
          SignalOutsideLoop(failing, in_time)
    \/ SignalDefault
    \/ Exit

Spec == Init /\ [][Next]_vars

\* ------------------------- execute_composite_tool under any caller
\* the places between the script's steps where a call could be made: before
\* the session is opened, during the demos, and after the loop has ended
CallPoints ==
    {"start_server", "poll", "connect_transport", "demo", "ask", "post_loop"}

\* execute_composite_tool called at one of these places
StrayCall(outcome) ==
    /\ pc \in CallPoints
    /\ last_call' = CallRecord(outcome)
    /\ UNCHANGED <<pc, AUTO_CONTINUE, keep_running,
                   checks, initialized, displayVars,
                   procVars, mcp_session, stackVars, pollVars, toolVars, fatal,
                   calls_at_fatal, cleanup_caller, sigVars, detached,
                   exit_status, exit_via>>

NextCall ==
    \/ Next
    \/ \E outcome \in {"ok", "is_error", "exception"} : StrayCall(outcome)

SpecCall == Init /\ [][NextCall]_vars

\* --------------------------------------- the exit stack on its own
\* any sequence of acquisitions on one AsyncExitStack, then drains
InitStack ==
    /\ pc = "stack"
    /\ AUTO_CONTINUE = FALSE
    /\ vmcp_process = "None"
    /\ proc_alive = FALSE
    /\ returncode = "None"
    /\ mcp_session = FALSE
    /\ exit_stack = NewStack
    /\ acquired = <<>>
    /\ released = <<>>
    /\ drains = 0
    /\ drain_error = {}
    /\ attempts = 0
    /\ failures = 0
    /\ ready = FALSE
    /\ demo_idx = 1
    /\ tool_calls = 0
    /\ fatal = "none"
    /\ calls_at_fatal = 0
    /\ cleanup_caller = "none"
    /\ stop_log = <<>>
    /\ term_calls = 0
    /\ sig_handler = "custom"
    /\ sig_count = 0
    /\ sig_at = "none"
    /\ detached = "no"
    /\ exit_status = -1
    /\ exit_via = "none"
    /\ checks = <<>>
    /\ initialized = FALSE
    /\ replies = <<>>
    /\ last_call = NoCall
    /\ wait_log = <<>>
    /\ content = <<>>
    /\ shown = NotShown
    /\ keep_running = "unasked"

StackEnter(r) ==
    /\ pc = "stack"
    /\ drains = 0
    /\ Len(acquired) < MaxRes
    /\ r \notin SeqSet(acquired)
    /\ exit_stack' = EnterContext(exit_stack, r)
    /\ acquired' = Append(acquired, r)
    /\ UNCHANGED <<pc, envVars, procVars, mcp_session, released, drains,
                   drain_error, pollVars, toolVars, fatal, calls_at_fatal,
                   cleanup_caller, sigVars, detached, exit_status, exit_via>>

StackDrain(failing) ==
    /\ pc = "stack"
    /\ drains < MaxDrains
    /\ DrainStack(failing)
    /\ UNCHANGED <<pc, envVars, procVars, mcp_session, pollVars, toolVars,
                   fatal, calls_at_fatal, cleanup_caller, sigVars, detached,
                   exit_status, exit_via>>

NextStack ==
    \/ \E r \in Resources : StackEnter(r)
    \/ \E failing \in SUBSET SeqSet(exit_stack.callbacks) : StackDrain(failing)

SpecStack == InitStack /\ [][NextStack]_vars

\* --------------------------- display_workflow_result on its own
Contents == UNION {[1..n -> Blocks] : n \in 0..MaxBlocks}

InitDecode ==
    /\ pc = "decode"
    /\ content \in Contents
    /\ shown = NotShown
    /\ keep_running = "unasked"
    /\ AUTO_CONTINUE = FALSE
    /\ vmcp_process = "None"
    /\ proc_alive = FALSE
    /\ returncode = "None"
    /\ mcp_session = FALSE
    /\ exit_stack = NoStack
    /\ acquired = <<>>
    /\ released = <<>>
    /\ drains = 0
    /\ drain_error = {}
    /\ attempts = 0
    /\ failures = 0
    /\ ready = FALSE
    /\ demo_idx = 1
    /\ tool_calls = 0
    /\ fatal = "none"
    /\ calls_at_fatal = 0
    /\ cleanup_caller = "none"
    /\ stop_log = <<>>
    /\ term_calls = 0
    /\ sig_handler = "custom"
    /\ sig_count = 0
    /\ sig_at = "none"
    /\ detached = "no"
    /\ exit_status = -1
    /\ exit_via = "none"
    /\ checks = <<>>
    /\ initialized = FALSE
    /\ replies = <<>>
    /\ last_call = NoCall
    /\ wait_log = <<>>

Display ==
    /\ pc = "decode"
    /\ shown.kind = "not_called"
    /\ shown' = display_workflow_result(content)
    /\ UNCHANGED <<pc, AUTO_CONTINUE, keep_running,
                   checks, initialized, last_call, content,
                   procVars, mcp_session, stackVars, pollVars, toolVars, fatal,
                   calls_at_fatal, cleanup_caller, sigVars, detached,
                   exit_status, exit_via>>

NextDecode == Display

SpecDecode == InitDecode /\ [][NextDecode]_vars

\* ------------------------------------------------------------ claims
Launched == vmcp_process = "Popen"

AllReleasedOnce ==
    \A r \in Resources :
        Count(released, r) = (IF r \in SeqSet(acquired) THEN 1 ELSE 0)

StartingReadyConnectedRunning ==
    {"poll", "connect_transport", "connect_session", "initialize",
     "connected_wait", "demo", "ask"}

\* C1: whenever the script has exited with the server launched and the
\* operator did not choose detach, the server was asked to stop first.
C1_NoOrphanOnExit ==
    (pc = "exited" /\ Launched /\ detached = "no") => term_calls >= 1

\* C2: a signal received in Starting, Ready, Connected or Running leads to
\* Cleaned: at exit the resource stack is drained and the server was stopped.
C2_SignalForcesCleaned ==
    (pc = "exited" /\ sig_at \in StartingReadyConnectedRunning)
        => (exit_stack.callbacks = <<>> /\ term_calls >= 1 /\ ~proc_alive)

\* C3: when the readiness poll ran out of attempts, the script does not exit
\* before stop() was issued: at exit the server is not running any more.
C3_TimeoutStopsServer ==
    (pc = "exited" /\ fatal = "readiness_timeout")
        => (term_calls >= 1 /\ ~proc_alive)

\* C4: when opening the session failed, every release callback already on
\* the stack has run by the time the failure has led to the abort.
C4_FailedOpenDrains ==
    (fatal = "connect" /\ pc \in {"post_loop", "exited"})
        => (exit_stack.callbacks = <<>> /\ AllReleasedOnce)

\* C5: every drain leaves the stack empty with each acquired resource
\* released exactly once; a drain of an empty or already drained stack
\* changes nothing.
C5_DrainIdempotent ==
    [][drains' = drains + 1 =>
          /\ exit_stack'.callbacks = <<>>
          /\ AllReleasedOnce'
          /\ (drains >= 1 \/ exit_stack.callbacks = <<>>) =>
                (released' = released /\ exit_stack' = exit_stack)]_vars

C5_Witness ==
    /\ pc = "stack"
    /\ drains = 2
    /\ Len(acquired) >= 2
    /\ exit_stack.callbacks = <<>>
    /\ Len(released) = Len(acquired)

\* C6: when a signal arrives during Running or during the normal-path
\* teardown, at exit no resource was released twice and the server was
\* stopped exactly once.
C6_SignalTeardownOnce ==
    (pc = "exited" /\ Launched
       /\ (sig_at \in {"demo", "ask"}
             \/ (cleanup_caller = "normal"
                   /\ sig_at \in {"cleanup_drain", "cleanup_stop",
                                  "cleanup_wait"})))
        => /\ \A r \in Resources : Count(released, r) <= 1
           /\ Count(stop_log, "terminate") = 1
           /\ ~proc_alive

\* C7: once drained, the k-th resource released is the k-th last acquired,
\* for every number of acquired resources.
C7_ReverseOrderRelease ==
    drains >= 1 =>
        /\ Len(released) = Len(acquired)
        /\ \A i \in 1..Len(acquired) :
              released[Len(acquired) + 1 - i] = acquired[i]

C7_Witness ==
    /\ pc = "stack"
    /\ drains >= 1
    /\ Len(acquired) = 3
    /\ acquired[1] = "transport"
    /\ acquired[2] = "session"
    /\ released[2] = "session"
    /\ released[3] = "transport"

\* C8: the poll never probes more than MaxAttempts times; it is ready after
\* exactly failures + 1 probes and probes no more once ready; it times out
\* after exactly MaxAttempts probes, all failed.
C8_BoundedPoll ==
    [][/\ attempts' <= MaxAttempts
       /\ ready' => attempts' = failures' + 1
       /\ ~ready' => attempts' = failures'
       /\ ready => attempts' = attempts
       /\ fatal' = "readiness_timeout" =>
             (~ready' /\ attempts' = MaxAttempts /\ failures' = MaxAttempts)]_vars

C8_Witness ==
    /\ fatal = "readiness_timeout"
    /\ attempts = MaxAttempts
    /\ failures = MaxAttempts
    /\ pc = "exited"

\* C9: once detach has completed, the resource stack is empty with every
\* session resource released, and the server is still running with no
\* terminate or kill request made of it.
C9_DetachLeavesServer ==
    detached = "done" =>
        /\ exit_stack.callbacks = <<>>
        /\ AllReleasedOnce
        /\ Launched
        /\ proc_alive
        /\ returncode = "None"
        /\ term_calls = 0
        /\ stop_log = <<>>

C9_Witness ==
    /\ detached = "done"
    /\ pc = "exited"
    /\ released = <<"session", "transport">>
    /\ proc_alive

\* C10: after a tool call raised, no further tool call is sent; the run
\* exits with status 1 only after the drain and the stop of the server;
\* and with no signal delivered it exits no other way.
C10_ToolFailureAborts ==
    fatal = "tool_call" =>
        /\ tool_calls = calls_at_fatal
        /\ exit_status = 1 =>
              /\ drains >= 1
              /\ exit_stack.callbacks = <<>>
              /\ AllReleasedOnce
              /\ term_calls >= 1
              /\ Len(stop_log) >= 1
              /\ stop_log[1] = "terminate"
              /\ ~proc_alive
        /\ (pc = "exited" /\ sig_count = 0) => exit_status = 1

C10_Witness ==
    /\ fatal = "tool_call"
    /\ pc = "exited"
    /\ exit_status = 1
    /\ tool_calls = 2
    /\ sig_count = 0
    /\ ~proc_alive

\* C11: a reply with the error flag set is fatal: no further tool call is
\* sent after it and the run ends with status 1 after the full teardown.
C11_ErrorReplyFatal ==
    \A i \in 1..Len(replies) :
        replies[i] = "is_error" =>
            /\ tool_calls = i
            /\ (pc = "exited" /\ sig_count = 0) =>
                  (exit_status = 1 /\ drains >= 1 /\ term_calls >= 1)

\* C11 as amended: a reply with the error flag set is not the failure of the
\* run; unless something else ends the run, the next demo call is sent.
C11_ErrorReplyContinues ==
    \A i \in 1..Len(replies) :
        replies[i] = "is_error" =>
            /\ fatal = "tool_call" => calls_at_fatal # i
            /\ (i < NumDemos /\ pc # "demo" /\ fatal = "none" /\ sig_count = 0)
                  => tool_calls > i
            /\ (pc = "exited" /\ fatal = "none" /\ sig_count = 0)
                  => (tool_calls = NumDemos /\ exit_status = 0)

C11_Witness ==
    /\ pc = "exited"
    /\ replies = <<"is_error", "ok", "ok">>
    /\ tool_calls = NumDemos
    /\ fatal = "none"
    /\ exit_status = 0

FatalKinds ==
    {"prerequisites", "validation", "launch", "readiness_timeout", "connect",
     "tool_call"}

\* the teardown was attempted: the stack, if one exists, was drained and the
\* server, if launched, was asked to terminate
TeardownAttempted ==
    /\ exit_stack.created => drains >= 1
    /\ Launched => term_calls >= 1

\* C12: with no signal delivered, the script exits with status 0 when no
\* fatal condition occurred and with status 1, after the teardown was
\* attempted, when one did.
C12_ExitCodes ==
    (pc = "exited" /\ sig_count = 0) =>
        /\ fatal = "none" => exit_status = 0
        /\ fatal \in FatalKinds => (exit_status = 1 /\ TeardownAttempted)

\* C13: a call made while no session is active raises the not-connected
\* error at the guard and hands nothing to call_tool.
C13_FailFastWithoutSession ==
    (last_call.error # "no_call" /\ ~last_call.active)
        => (last_call.error = "not_connected" /\ ~last_call.sent)

\* the payloads that are valid JSON, and what each parses to
Num1 == [type |-> "num", items |-> <<>>]

ValidJson ==
    {<<"1">>, <<"[", "]">>, <<"[", "1", "]">>, <<"[", "1", ",", "1", "]">>}

Expected(t) ==
    IF t = <<"1">> THEN Num1
    ELSE IF t = <<"[", "]">> THEN [type |-> "arr", items |-> <<>>]
    ELSE IF t = <<"[", "1", "]">> THEN [type |-> "arr", items |-> <<Num1>>]
    ELSE [type |-> "arr", items |-> <<Num1, Num1>>]

TextIndexes == {k \in 1..Len(content) : content[k].type = "text"}

\* C14: decoding never raises; the first text block alone is decoded: to the
\* parsed structure when its text is valid JSON, else to the raw wrapper
\* holding the text; with no text block nothing is decoded.
C14_DecodeNeverFails ==
    shown.kind # "not_called" =>
        /\ shown.kind \in {"no_content", "no_text", "json", "raw"}
        /\ IF TextIndexes = {}
           THEN shown.kind \in {"no_content", "no_text"} /\ shown.block = 0
           ELSE LET k == CHOOSE i \in TextIndexes :
                            \A j \in TextIndexes : i <= j
                IN /\ shown.block = k
                   /\ content[k].text \in ValidJson =>
                         (shown.kind = "json"
                            /\ shown.value = Expected(content[k].text))
                   /\ content[k].text \notin ValidJson =>
                         (shown.kind = "raw"
                            /\ shown.raw_output = content[k].text)

C14_Witness ==
    /\ pc = "decode"
    /\ Len(content) = 2
    /\ content[1].type = "image"
    /\ content[2].type = "text"
    /\ content[2].text = <<"[", "1">>
    /\ shown.kind = "raw"
    /\ shown.block = 2
    /\ shown.raw_output = <<"[", "1">>

\* C15: when a release callback raised during the drain, every callback was
\* still run and the stack is empty; with no signal and no detach the
\* teardown went on to stop the server and the error changed no exit status.
C15_ReleaseFailureSwallowed ==
    drain_error # {} =>
        /\ exit_stack.callbacks = <<>>
        /\ AllReleasedOnce
        /\ (pc \in {"post_loop", "exited"} /\ sig_count = 0 /\ detached = "no")
              => /\ term_calls >= 1
                 /\ ~proc_alive
                 /\ exit_status = (IF fatal = "none" THEN 0 ELSE 1)

C15_Witness ==
    /\ "session" \in drain_error
    /\ released = <<"session", "transport">>
    /\ pc = "exited"
    /\ sig_count = 0
    /\ cleanup_caller = "normal"
    /\ term_calls = 1
    /\ exit_status = 0

KillCount == Count(stop_log, "kill")

\* C16: every wait on the server follows a terminate call; a kill is issued
\* in a step exactly when that step's wait timed out, and the request just
\* before a kill is always a terminate.
C16_TerminateThenKill ==
    [][/\ Len(wait_log') > Len(wait_log) =>
             /\ term_calls' >= 1
             /\ wait_log'[Len(wait_log')] = "timeout"
                   <=> KillCount' = KillCount + 1
             /\ wait_log'[Len(wait_log')] = "exited"
                   <=> KillCount' = KillCount
       /\ KillCount' > KillCount => Len(wait_log') > Len(wait_log)
       /\ \A i \in 1..Len(stop_log') :
             stop_log'[i] = "kill" => (i > 1 /\ stop_log'[i - 1] = "terminate")
      ]_vars

C16_Witness ==
    /\ stop_log = <<"terminate", "kill">>
    /\ wait_log = <<"timeout">>
    /\ ~proc_alive
    /\ pc = "exited"

\* C17: whenever terminate() is called on the server, the session stack has
\* already been drained: it is empty, and if a stack exists aclose() ran.
C17_DrainBeforeTerminate ==
    [][term_calls' > term_calls =>
          /\ exit_stack'.callbacks = <<>>
          /\ exit_stack'.created => drains' >= 1
          /\ \A r \in SeqSet(acquired') : Count(released', r) = 1]_vars

C17_Witness ==
    /\ pc = "cleanup_wait"
    /\ term_calls = 1
    /\ stop_log = <<"terminate">>
    /\ drains = 1
    /\ drain_error = {"transport"}
    /\ released = <<"session", "transport">>

\* C18: the stack is opened only after the launch and a successful probe; a
\* tool call is sent only with the session initialized and still open, and
\* never once a drain, a detach or a teardown has begun.
C18_LifecycleOrder ==
    [][/\ attempts' >= 1 => Launched'
       /\ exit_stack'.created => (ready' /\ Launched')
       /\ initialized' => acquired' = <<"transport", "session">>
       /\ tool_calls' > tool_calls =>
             /\ initialized
             /\ SessionActive
             /\ drains = 0
             /\ detached = "no"
             /\ cleanup_caller = "none"
             /\ term_calls = 0
       /\ (drains >= 1 \/ detached # "no" \/ cleanup_caller # "none")
             => tool_calls' = tool_calls]_vars

C18_Witness ==
    /\ pc = "exited"
    /\ ready
    /\ initialized
    /\ tool_calls = NumDemos
    /\ drains = 1
    /\ term_calls = 1

\* C19: the prerequisites check and then the validation run at most once
\* each; the server is launched only after both passed; after a failed gate
\* no server was launched, no probe made and no session resource acquired.
C19_GatesBeforeLaunch ==
    /\ Len(checks) <= 2
    /\ Len(checks) >= 1 => checks[1] \in {"prereq_ok", "prereq_failed"}
    /\ Len(checks) = 2 =>
          (checks[1] = "prereq_ok" /\ checks[2] \in {"config_ok", "config_failed"})
    /\ (Launched \/ pc = "start_server") => checks = <<"prereq_ok", "config_ok">>
    /\ (fatal \in {"prerequisites", "validation"}
          \/ {"prereq_failed", "config_failed"} \cap SeqSet(checks) # {})
          => /\ ~Launched
             /\ attempts = 0
             /\ ~exit_stack.created
             /\ acquired = <<>>
             /\ pc \in {"post_loop", "exited"}

C19_Witness ==
    /\ checks = <<"prereq_ok", "config_failed">>
    /\ fatal = "validation"
    /\ pc = "exited"
    /\ exit_status = 1
    /\ ~Launched

\* C20: once a signal has been delivered to the script, no further tool
\* call is sent.
C20_SignalCancelsSteps ==
    [][sig_count >= 1 => (tool_calls' = tool_calls /\ replies' = replies)]_vars

C20_Witness ==
    /\ sig_at = "demo"
    /\ tool_calls = 1
    /\ demo_idx = 2
    /\ fatal = "none"
    /\ pc = "exited"

\* C21: when the launch of the server fails, nothing has been acquired and
\* nothing is acquired afterwards: there is no process handle, no readiness
\* probe, no exit stack, no session and no tool call; the teardown makes no
\* terminate, wait or kill of a process; and the run, left to itself, exits
\* with status 1 (only a signal, which exits 0, can pre-empt that).
C21_LaunchFailureAborts ==
    fatal = "launch" =>
        /\ pc \in {"cleanup_drain", "post_loop", "exited"}
        /\ vmcp_process = "None"
        /\ ~proc_alive
        /\ attempts = 0
        /\ ~exit_stack.created
        /\ acquired = <<>>
        /\ ~mcp_session
        /\ ~initialized
        /\ tool_calls = 0
        /\ term_calls = 0
        /\ stop_log = <<>>
        /\ wait_log = <<>>
        /\ detached = "no"
        /\ pc = "exited" => exit_status \in {0, 1}
        /\ pc = "exited" /\ sig_count = 0 =>
               /\ exit_status = 1
               /\ exit_via = "sys_exit"
               /\ cleanup_caller = "except"

C21_Witness ==
    /\ fatal = "launch"
    /\ pc = "exited"
    /\ exit_status = 1
    /\ cleanup_caller = "except"
    /\ checks = <<"prereq_ok", "config_ok">>
    /\ sig_count = 0

\* C22: once the detach has completed (stack drained, default handlers
\* restored), no step of the run changes the server process: no terminate,
\* wait or kill is made, the process stays alive and unreaped, the handlers
\* stay default and the run stays detached, whatever signal arrives.
C22_DetachedIsTerminal ==
    [][detached = "done" =>
          /\ sig_handler = "default"
          /\ detached' = "done"
          /\ sig_handler' = "default"
          /\ term_calls' = term_calls
          /\ stop_log' = stop_log
          /\ wait_log' = wait_log
          /\ proc_alive' = proc_alive
          /\ returncode' = returncode
          /\ vmcp_process' = vmcp_process
          /\ drains' = drains]_vars

C22_Witness ==
    /\ detached = "done"
    /\ pc = "exited"
    /\ exit_via = "killed"
    /\ sig_count >= 1
    /\ sig_at = "post_loop"
    /\ proc_alive
    /\ term_calls = 0

\* the run completed normally: every demo step returned, no fatal condition
\* occurred, and the keep-running decision was taken
CompletedNormally ==
    /\ fatal = "none"
    /\ demo_idx = NumDemos + 1
    /\ pc \notin {"demo", "ask"}
    /\ sig_at \notin {"demo", "ask"}

Confirmed == ~AUTO_CONTINUE /\ keep_running \in {"y", "Y"}

\* C23: the run is detached only when it is interactive and the operator
\* answered y or Y, and then cleanup_async is never entered; in AUTO_CONTINUE
\* mode no answer is read; with any other answer, or in AUTO_CONTINUE mode, a
\* run that completed normally goes through cleanup_async and never detaches,
\* and when cleanup_async has returned the stack was drained, every resource
\* released once, and the server terminated, waited for and no longer alive.
C23_DetachOnlyOnConfirmation ==
    /\ AUTO_CONTINUE => keep_running = "unasked"
    /\ detached # "no" => Confirmed /\ CompletedNormally
    /\ detached # "no" => cleanup_caller = "none"
    /\ CompletedNormally /\ Confirmed => detached # "no"
    /\ CompletedNormally /\ ~Confirmed =>
           /\ detached = "no"
           /\ cleanup_caller = "normal"
           /\ sig_handler = "custom"
           /\ pc = "cleanup_stop" => drains = 1 /\ term_calls = 0
           /\ exit_via = "return" =>
                  /\ exit_status = 0
                  /\ drains = 1
                  /\ exit_stack.callbacks = <<>>
                  /\ AllReleasedOnce
                  /\ term_calls = 1
                  /\ Len(wait_log) = 1
                  /\ ~proc_alive
           /\ pc = "exited" /\ sig_count = 0 => exit_via = "return"

C23_Witness ==
    /\ CompletedNormally
    /\ ~AUTO_CONTINUE
    /\ keep_running = "n"
    /\ pc = "exited"
    /\ exit_via = "return"
    /\ released = <<"session", "transport">>
    /\ stop_log = <<"terminate">>
    /\ ~proc_alive

====
